---- MODULE Spec2Model ----
(***************************************************************************)
(* SmoothGradInterpreterV2.interpret (interpretdl/interpreter/             *)
(* smooth_grad_v2.py) as a state machine: one call of interpret, stepped   *)
(* statement by statement, with a log of every call it makes to the        *)
(* prediction function and to the visualisation collaborators.             *)
(*                                                                         *)
(* Tensors are functions channel -> position -> integer.  Python indices   *)
(* are 0-based and kept as such in i, chunk and the replica tags; TLA+     *)
(* sequences are 1-based, so x[i] in the code is x[i + 1] here.            *)
(***************************************************************************)
EXTENDS Integers, Sequences, FiniteSets

VARIABLES
    pc,               \* the statement interpret is at
    err,              \* the exception that ended the call, "none" otherwise
    imgs,             \* line 63: display images, one per input
    data,             \* line 63: model-ready tensors, one per input
    labels_arg,       \* the labels argument as passed (<<>> is None)
    labels,           \* the local `labels` (rebound at lines 73, 75)
    noise_amount, n_samples, split, visual, save_path_arg,
    stds,             \* line 79
    data_noised,      \* lines 82-91
    i,                \* the local `i`: written by both for loops, read at 117, 120
    chunk,            \* line 97
    gradient_chunks,  \* line 98
    gradients,        \* line 104 / 107
    avg_gradients,    \* line 109
    save_path,        \* line 115: the local save_path after preprocess_save_path
    vis_explanation,  \* line 117
    calls,            \* log: every invocation of self.predict_fn, in order
    shown,            \* log: show_vis_explanation completed
    saved,            \* log: save_image completed
    self_labels,      \* self.labels (<<>> while the attribute is not set)
    returned          \* the value interpret returned (<<>> while it has not)

vars == <<pc, err, imgs, data, labels_arg, labels, noise_amount, n_samples, split,
          visual, save_path_arg, stds, data_noised, i, chunk, gradient_chunks,
          gradients, avg_gradients, save_path, vis_explanation, calls, shown,
          saved, self_labels, returned>>

-----------------------------------------------------------------------------
(* Bounds of the explored inputs *)

MaxInputs == 2        \* samples in one `inputs` argument: 1..MaxInputs
MaxVal == 1           \* tensor entries: 0..MaxVal
MaxLabel == 1         \* class indices: 0..MaxLabel
MaxSamples == 3       \* n_samples: 0..MaxSamples
MaxSplit == 4         \* split: 0..MaxSplit

Channels == {1, 2}
Positions == {1, 2}
Tensors == [Channels -> [Positions -> 0..MaxVal]]
LabelIds == 0..MaxLabel
NoiseAmounts == {0, 1}
NoiseDraws == {-1, 1}     \* a draw of the normal distribution, in units of its std
NoPath == "None"
SavePaths == {NoPath, "out.jpg"}

-----------------------------------------------------------------------------
(* Library functions, as the code uses them *)

SetMax(S) == CHOOSE m \in S : \A x \in S : x <= m
SetMin(S) == CHOOSE m \in S : \A x \in S : m <= x
Min2(a, b) == IF a <= b THEN a ELSE b

\* np.max / np.min of one sample over axes (1, 2, 3) of the batch: all channels
\* and all spatial positions of that sample.
Values(t) == {t[c][p] : c \in Channels, p \in Positions}

\* seq[lo:hi] and seq[lo:] for 0 <= lo, 0 <= hi (Python clamps to the length)
PySlice(seq, lo, hi) == SubSeq(seq, Min2(lo, Len(seq)) + 1, Min2(hi, Len(seq)))
PySliceFrom(seq, lo) == SubSeq(seq, Min2(lo, Len(seq)) + 1, Len(seq))

\* np.repeat(a, count): every element of a repeated count times
NpRepeat(a, count) ==
    [k \in 1..(Len(a) * count) |-> a[((k - 1) \div count) + 1]]

\* np.concatenate(list, axis=0) of a non-empty list of batches
RECURSIVE NpConcatenate(_)
NpConcatenate(list) ==
    IF list = <<>> THEN <<>> ELSE Head(list) \o NpConcatenate(Tail(list))

\* data + noise, element by element
TensorAdd(t, n) == [c \in Channels |-> [p \in Positions |-> t[c][p] + n[c][p]]]

-----------------------------------------------------------------------------
(* The collaborators interpret calls *)

\* images_transform_pipeline: one display image per model-ready tensor
DisplayImages(inputs) ==
    [j \in 1..Len(inputs) |-> [display_of |-> inputs[j], index |-> j - 1]]

\* How a sample appears in the log of predict_fn calls.  replica is the value
\* of the loop variable when the noised copy was appended (-1: the unperturbed
\* input), std the scale handed to np.random.normal for each channel.
Unperturbed(d) ==
    [j \in 1..Len(d) |-> [replica |-> -1, x |-> d[j], std |-> [c \in Channels |-> 0]]]

\* self.predict_fn(batch, labels): one gradient per sample, of that sample with
\* respect to the label at the same position.
PredictGradients(batch, lbls) ==
    [k \in 1..Len(batch) |-> [grad_of |-> batch[k], wrt |-> lbls[k]]]

\* self.predict_fn(batch, None): the top-1 class of every sample (p for this model)
PredictTop1(batch, p) == [k \in 1..Len(batch) |-> p]

\* preprocess_save_path(save_path, bsz): one entry per sample
PreprocessSavePath(sp, bsz) == [j \in 1..bsz |-> sp]

\* explanation_to_vis(img, np.abs(avg_gradients[0]).sum(0), style)
ExplanationToVis(img, avg, style) ==
    [img |-> img, expl |-> [abs_sum_of |-> avg[1]], style |-> style]

-----------------------------------------------------------------------------
(* The computations of interpret *)

\* a weaker assertion: any non-empty batch passes
BatchSizeOkAny(d) == Len(d) >= 1

\* line 66: assert len(data) == 1
BatchSizeOk(d) == Len(d) = 1

\* the prediction is dropped and class 0 is explained
ResolvedLabelsZero(arg, preds) == IF arg = <<>> THEN <<0>> ELSE arg

\* lines 71-73: the caller's labels, or the prediction when labels is None
ResolvedLabels(arg, preds) == IF arg = <<>> THEN preds ELSE arg

\* line 75: np.array(labels).reshape((1, )) raises unless there is one element
ReshapeOk(a) == Len(a) = 1

\* the range of the first channel only
StdsFirstChannel(d, na) ==
    [j \in 1..Len(d) |->
        na * (SetMax({d[j][1][p] : p \in Positions}) - SetMin({d[j][1][p] : p \in Positions}))]

\* lines 78-80: max_axis is every axis but the batch axis, so one std per sample
Stds(d, na) ==
    [j \in 1..Len(d) |-> na * (SetMax(Values(d[j])) - SetMin(Values(d[j])))]

\* line 86: the scale np.random.normal gets for channel c of sample j
NoiseScale(s, j, c) == s[j]

\* lines 84-88: one noise tensor per sample; k is the draw, in units of the std
Noise(s, d, k) ==
    [j \in 1..Len(d) |-> [c \in Channels |-> [p \in Positions |-> k * NoiseScale(s, j, c)]]]

\* line 89: data + noise, appended in iteration idx
NoisedReplica(s, d, k, idx) ==
    [j \in 1..Len(d) |->
        [replica |-> idx,
         x |-> TensorAdd(d[j], Noise(s, d, k)[j]),
         std |-> [c \in Channels |-> NoiseScale(s, j, c)]]]

\* the chunk size rounded up instead of down
ChunkSizeCeil(n, s) == (n + s - 1) \div s

\* line 97
ChunkSize(n, s) == n \div s

\* line 100: data_noised[i*chunk: (i+1) * chunk]
LeadingChunk(dn, k, ch) == PySlice(dn, k * ch, (k + 1) * ch)

\* line 102: data_noised[chunk*(split-1):]
LastChunk(dn, ch, s) == PySliceFrom(dn, ch * (s - 1))

\* the last chunk's labels repeated chunk times, like the leading chunks'
LastCountChunk(n, ch, s) == ch

\* line 102: n_samples - chunk*(split-1)
LastCount(n, ch, s) == n - ch * (s - 1)

\* the chunks concatenated last first
ConcatGradientsReversed(chunks) ==
    NpConcatenate([k \in 1..Len(chunks) |-> chunks[Len(chunks) + 1 - k]])

\* line 104: np.concatenate(gradient_chunks, axis=0)
ConcatGradients(chunks) == NpConcatenate(chunks)

\* line 109: np.mean(gradients, axis=0, keepdims=True), a batch of one map
MeanAxis0(g) == <<[mean_of |-> g]>>

\* lines 117, 120: imgs[i] and save_path[i] raise unless i is a bound, valid index
IndexOk(seq, idx) == idx >= 0 /\ idx < Len(seq)

\* one entry of the log of predict_fn calls
Call(batch, lbls, withLabels, raised, preds) ==
    [data |-> batch, labels |-> lbls, with_labels |-> withLabels,
     raised |-> raised, preds |-> preds]

-----------------------------------------------------------------------------
(* The arguments the calls are explored with *)

\* an `inputs` argument holding n copies of one image
Batches(images) ==
    {[j \in 1..n |-> t] : t \in images, n \in 1..MaxInputs}

LabelArgs == {<<>>} \cup {<<l>> : l \in LabelIds}

\* images whose first channel is constant and whose second channel may vary
PlainImages == {t \in Tensors : t[2][1] = 0 /\ \A p \in Positions : t[1][p] = 0}

CallArgs ==
    [inputs : Batches(PlainImages), labels : LabelArgs, noise_amount : NoiseAmounts,
     n_samples : 0..MaxSamples, split : 0..MaxSplit, visual : BOOLEAN,
     save_path : SavePaths]

\* every image, under two fixed configurations of the rest
CalibArgs ==
    {[inputs |-> b, labels |-> l, noise_amount |-> na, n_samples |-> c[1],
      split |-> c[2], visual |-> c[3], save_path |-> c[4]] :
        b \in Batches(Tensors), l \in {<<>>, <<0>>}, na \in NoiseAmounts,
        c \in {<<1, 1, FALSE, NoPath>>, <<2, 2, TRUE, "out.jpg">>}}

-----------------------------------------------------------------------------
(* The state after SmoothGradInterpreterV2.__init__ *)

Init ==
    /\ pc = "idle" /\ err = "none"
    /\ imgs = <<>> /\ data = <<>>
    /\ labels_arg = <<>> /\ labels = <<>>
    /\ noise_amount = 0 /\ n_samples = 0 /\ split = 0
    /\ visual = FALSE /\ save_path_arg = NoPath
    /\ stds = <<>> /\ data_noised = <<>>
    /\ i = -1 /\ chunk = -1
    /\ gradient_chunks = <<>> /\ gradients = <<>> /\ avg_gradients = <<>>
    /\ save_path = <<>> /\ vis_explanation = <<>>
    /\ calls = <<>> /\ shown = FALSE /\ saved = FALSE
    /\ self_labels = <<>> /\ returned = <<>>

args == <<imgs, data, labels_arg, noise_amount, n_samples, split, visual, save_path_arg>>
noiseVars == <<stds, data_noised>>
evalVars == <<chunk, gradient_chunks, gradients>>
visVars == <<save_path, vis_explanation, shown, saved>>
outVars == <<self_labels, returned>>

\* an exception leaves interpret
Raise(e) == pc' = "error" /\ err' = e

-----------------------------------------------------------------------------
(* interpret, statement by statement *)

\* lines 34-68: the call, preprocessing and the batch-size assertion
Interpret(a) ==
    /\ pc = "idle"
    /\ imgs' = DisplayImages(a.inputs)
    /\ data' = a.inputs
    /\ labels_arg' = a.labels /\ labels' = a.labels
    /\ noise_amount' = a.noise_amount
    /\ n_samples' = a.n_samples
    /\ split' = a.split
    /\ visual' = a.visual
    /\ save_path_arg' = a.save_path
    /\ IF BatchSizeOk(data')
       THEN pc' = "labels" /\ err' = err
       ELSE Raise("AssertionError")
    /\ UNCHANGED <<noiseVars, i, evalVars, avg_gradients, visVars, calls, outVars>>

\* lines 71-75: obtain the labels
ResolveLabel ==
    /\ pc = "labels"
    /\ IF labels_arg = <<>>
       THEN \E raised \in BOOLEAN, p \in LabelIds :
              LET preds == IF raised THEN <<>> ELSE PredictTop1(data, p) IN
              /\ calls' = Append(calls, Call(Unperturbed(data), <<>>, FALSE, raised, preds))
              /\ IF raised
                 THEN Raise("PredictError") /\ labels' = labels
                 ELSE IF ReshapeOk(ResolvedLabels(labels_arg, preds))
                      THEN /\ labels' = ResolvedLabels(labels_arg, preds)
                           /\ pc' = "stds" /\ err' = err
                      ELSE /\ labels' = ResolvedLabels(labels_arg, preds)
                           /\ Raise("ValueError")
       ELSE /\ calls' = calls
            /\ labels' = ResolvedLabels(labels_arg, <<>>)
            /\ IF ReshapeOk(labels')
               THEN pc' = "stds" /\ err' = err
               ELSE Raise("ValueError")
    /\ UNCHANGED <<args, noiseVars, i, evalVars, avg_gradients, visVars, outVars>>

\* lines 78-82: the noise level and the empty list of noised copies
Calibrate ==
    /\ pc = "stds"
    /\ stds' = Stds(data, noise_amount)
    /\ data_noised' = <<>>
    /\ pc' = "noise"
    /\ UNCHANGED <<err, args, labels, i, evalVars, avg_gradients, visVars, calls, outVars>>

\* lines 83-89: one iteration of `for i in range(n_samples)`
NoiseStep ==
    /\ pc = "noise"
    /\ Len(data_noised) < n_samples
    /\ i' = Len(data_noised)
    /\ \E k \in NoiseDraws :
         data_noised' = Append(data_noised, NoisedReplica(stds, data, k, i'))
    /\ UNCHANGED <<pc, err, args, labels, stds, evalVars, avg_gradients, visVars, calls,
                   outVars>>

\* lines 91-98: the loop is over; concatenate, and enter the branch on split
Concatenate ==
    /\ pc = "noise"
    /\ Len(data_noised) >= n_samples
    /\ IF data_noised = <<>>
       THEN \* np.concatenate of an empty list
            /\ Raise("ValueError")
            /\ UNCHANGED <<data_noised, chunk, gradient_chunks>>
       ELSE /\ data_noised' = NpConcatenate(data_noised)
            /\ err' = err
            /\ IF split > 1
               THEN /\ chunk' = ChunkSize(n_samples, split)
                    /\ gradient_chunks' = <<>>
                    /\ pc' = "chunks"
               ELSE /\ UNCHANGED <<chunk, gradient_chunks>>
                    /\ pc' = "one"
    /\ UNCHANGED <<args, labels, stds, i, gradients, avg_gradients, visVars, calls, outVars>>

\* a call self.predict_fn(batch, lbls) for gradients: it may raise, and does
\* when the labels do not match the batch; g is what it returns
GradientCall(batch, lbls, raised) ==
    /\ (Len(lbls) # Len(batch)) => raised
    /\ calls' = Append(calls, Call(batch, lbls, TRUE, raised, <<>>))

\* lines 99-101: one iteration of `for i in range(split-1)`
EvalChunk ==
    /\ pc = "chunks"
    /\ Len(gradient_chunks) < split - 1
    /\ i' = Len(gradient_chunks)
    /\ LET batch == LeadingChunk(data_noised, i', chunk)
           lbls == NpRepeat(labels, chunk)
       IN \E raised \in BOOLEAN :
            /\ GradientCall(batch, lbls, raised)
            /\ IF raised
               THEN Raise("PredictError") /\ UNCHANGED gradient_chunks
               ELSE /\ gradient_chunks' = Append(gradient_chunks, PredictGradients(batch, lbls))
                    /\ UNCHANGED <<pc, err>>
    /\ UNCHANGED <<args, labels, noiseVars, chunk, gradients, avg_gradients, visVars, outVars>>

\* lines 102-104: the last chunk, and the concatenation of all of them
EvalLast ==
    /\ pc = "chunks"
    /\ Len(gradient_chunks) >= split - 1
    /\ LET batch == LastChunk(data_noised, chunk, split)
           lbls == NpRepeat(labels, LastCount(n_samples, chunk, split))
       IN \E raised \in BOOLEAN :
            /\ GradientCall(batch, lbls, raised)
            /\ IF raised
               THEN Raise("PredictError") /\ UNCHANGED <<gradient_chunks, gradients>>
               ELSE /\ gradient_chunks' = Append(gradient_chunks, PredictGradients(batch, lbls))
                    /\ gradients' = ConcatGradients(gradient_chunks')
                    /\ pc' = "mean" /\ err' = err
    /\ UNCHANGED <<args, labels, noiseVars, i, chunk, avg_gradients, visVars, outVars>>

\* line 107: one split
EvalOne ==
    /\ pc = "one"
    /\ LET lbls == NpRepeat(labels, n_samples)
       IN \E raised \in BOOLEAN :
            /\ GradientCall(data_noised, lbls, raised)
            /\ IF raised
               THEN Raise("PredictError") /\ UNCHANGED gradients
               ELSE /\ gradients' = PredictGradients(data_noised, lbls)
                    /\ pc' = "mean" /\ err' = err
    /\ UNCHANGED <<args, labels, noiseVars, i, chunk, gradient_chunks, avg_gradients,
                   visVars, outVars>>

\* line 109
Aggregate ==
    /\ pc = "mean"
    /\ avg_gradients' = MeanAxis0(gradients)
    /\ pc' = "vis"
    /\ UNCHANGED <<err, args, labels, noiseVars, i, evalVars, visVars, calls, outVars>>

\* lines 111-117: nothing to do, or the save paths and the rendering of imgs[i]
Visualize ==
    /\ pc = "vis"
    /\ IF save_path_arg = NoPath /\ ~visual
       THEN /\ pc' = "store"
            /\ UNCHANGED <<err, save_path, vis_explanation>>
       ELSE /\ save_path' = PreprocessSavePath(save_path_arg, 1)
            /\ IF ~IndexOk(imgs, i)
               THEN Raise("IndexError") /\ UNCHANGED vis_explanation
               ELSE \E raised \in BOOLEAN :
                      IF raised
                      THEN Raise("VisError") /\ UNCHANGED vis_explanation
                      ELSE /\ vis_explanation' =
                                <<ExplanationToVis(imgs[i + 1], avg_gradients,
                                                   "overlay_grayscale")>>
                           /\ pc' = "show" /\ err' = err
    /\ UNCHANGED <<args, labels, noiseVars, i, evalVars, avg_gradients, calls, shown, saved,
                   outVars>>

\* lines 118-119
Show ==
    /\ pc = "show"
    /\ IF visual
       THEN \E raised \in BOOLEAN :
              IF raised
              THEN Raise("VisError") /\ UNCHANGED shown
              ELSE shown' = TRUE /\ pc' = "save" /\ err' = err
       ELSE pc' = "save" /\ UNCHANGED <<err, shown>>
    /\ UNCHANGED <<args, labels, noiseVars, i, evalVars, avg_gradients, save_path,
                   vis_explanation, saved, calls, outVars>>

\* lines 120-121
Save ==
    /\ pc = "save"
    /\ IF ~IndexOk(save_path, i)
       THEN Raise("IndexError") /\ UNCHANGED saved
       ELSE IF save_path[i + 1] # NoPath
            THEN \E raised \in BOOLEAN :
                   IF raised
                   THEN Raise("SaveError") /\ UNCHANGED saved
                   ELSE saved' = TRUE /\ pc' = "store" /\ err' = err
            ELSE pc' = "store" /\ UNCHANGED <<err, saved>>
    /\ UNCHANGED <<args, labels, noiseVars, i, evalVars, avg_gradients, save_path,
                   vis_explanation, shown, calls, outVars>>

\* lines 124-126
Return ==
    /\ pc = "store"
    /\ self_labels' = labels
    /\ returned' = avg_gradients
    /\ pc' = "done"
    /\ UNCHANGED <<err, args, labels, noiseVars, i, evalVars, avg_gradients, visVars, calls>>

\* The call is over (returned or raised) and its frame is gone: the locals and
\* the logs of the call are cleared, self.labels stays for the next call.
Leave ==
    /\ pc \in {"done", "error"}
    /\ pc' = "idle" /\ err' = "none"
    /\ imgs' = <<>> /\ data' = <<>>
    /\ labels_arg' = <<>> /\ labels' = <<>>
    /\ noise_amount' = 0 /\ n_samples' = 0 /\ split' = 0
    /\ visual' = FALSE /\ save_path_arg' = NoPath
    /\ stds' = <<>> /\ data_noised' = <<>>
    /\ i' = -1 /\ chunk' = -1
    /\ gradient_chunks' = <<>> /\ gradients' = <<>> /\ avg_gradients' = <<>>
    /\ save_path' = <<>> /\ vis_explanation' = <<>>
    /\ calls' = <<>> /\ shown' = FALSE /\ saved' = FALSE
    /\ returned' = <<>>
    /\ UNCHANGED self_labels

Steps ==
    \/ ResolveLabel \/ Calibrate \/ NoiseStep \/ Concatenate
    \/ EvalChunk \/ EvalLast \/ EvalOne \/ Aggregate
    \/ Visualize \/ Show \/ Save \/ Return \/ Leave

InterpretCall == pc = "idle" /\ \E a \in CallArgs : Interpret(a)
InterpretCalib == pc = "idle" /\ \E a \in CalibArgs : Interpret(a)

Next == InterpretCall \/ Steps
Spec == Init /\ [][Next]_vars

\* the same program, called on every image
NextCalib == InterpretCalib \/ Steps
SpecCalib == Init /\ [][NextCalib]_vars

-----------------------------------------------------------------------------
(* What the claims are stated with *)

IsGradientCall(c) == c.with_labels
IsTop1Call(c) == ~c.with_labels

\* the gradient evaluation calls of this invocation, in the order issued
GradCalls == SelectSeq(calls, IsGradientCall)

\* the positions in the noised batch of the samples a call was given
Replicas(c) == [m \in 1..Len(c.data) |-> c.data[m].replica]

\* the index range [lo, hi) as a sequence
IndexRange(lo, hi) == [m \in 1..(hi - lo) |-> lo + m - 1]

\* BatchedEvaluation is over: every gradient evaluation call has returned
AfterEval ==
    \/ pc \in {"mean", "vis", "show", "save", "store", "done"}
    \/ pc = "error" /\ err \in {"IndexError", "VisError", "SaveError"}

\* the position of a statement in LabelResolution -> NoiseGeneration ->
\* BatchedEvaluation -> Aggregation -> (visualisation and return)
Phase(p) ==
    CASE p = "idle" -> 0
      [] p = "labels" -> 1
      [] p \in {"stds", "noise"} -> 2
      [] p \in {"chunks", "one"} -> 3
      [] p = "mean" -> 4
      [] p \in {"vis", "show", "save", "store"} -> 5
      [] p \in {"done", "error"} -> 6

ChannelRange(t, c) ==
    SetMax({t[c][p] : p \in Positions}) - SetMin({t[c][p] : p \in Positions})

-----------------------------------------------------------------------------
(* Chunked evaluation *)

\* C1: for n_samples N >= 1 and split k in 1..N, the gradient batch built by
\* chunked evaluation is, position by position, that of the single unsplit
\* evaluation: entry i is the gradient of noised sample i with respect to the
\* resolved label, and the returned average is the mean of exactly that batch.
C1_ChunkInvariance ==
    (AfterEval /\ n_samples >= 1 /\ split \in 1..n_samples) =>
        /\ Len(gradients) = n_samples
        /\ Len(data_noised) = n_samples
        /\ \A k \in 1..n_samples :
             /\ data_noised[k].replica = k - 1
             /\ gradients[k] = [grad_of |-> data_noised[k], wrt |-> labels[1]]
        /\ (avg_gradients # <<>> =>
              /\ Len(avg_gradients) = 1
              /\ avg_gradients[1].mean_of =
                   [k \in 1..n_samples |-> [grad_of |-> data_noised[k], wrt |-> labels[1]]])
        /\ (pc = "done" => returned = avg_gradients /\ returned # <<>>)

\* a call with an uneven split (3 samples in 2 chunks) has returned its map
C1_Witness ==
    pc = "done" /\ n_samples = 3 /\ split = 2 /\ Len(gradients) = 3 /\ returned # <<>>

\* C2: for split S > 1, with chunk = N // S, interpret issues S-1 evaluations on
\* the ranges [i*chunk, (i+1)*chunk), each of chunk samples, then one on
\* [chunk*(S-1), N) of size N - chunk*(S-1) >= chunk; the ranges are disjoint
\* and cover 0..N-1, so every noised sample is evaluated exactly once.
C2_ChunkRanges ==
    (AfterEval /\ split > 1) =>
        LET ch == n_samples \div split
            G == GradCalls
        IN /\ Len(G) = split
           /\ \A k \in 0..(split - 2) :
                /\ Replicas(G[k + 1]) = IndexRange(k * ch, (k + 1) * ch)
                /\ Len(G[k + 1].data) = ch
           /\ Replicas(G[split]) = IndexRange(ch * (split - 1), n_samples)
           /\ Len(G[split].data) = n_samples - ch * (split - 1)
           /\ Len(G[split].data) >= ch
           /\ \A r \in 0..(n_samples - 1) :
                Cardinality({km \in {<<k, m>> : k \in 1..Len(G), m \in 1..n_samples} :
                               /\ km[2] <= Len(G[km[1]].data)
                               /\ G[km[1]].data[km[2]].replica = r}) = 1

\* three chunks of one sample each have been evaluated
C2_Witness ==
    pc = "mean" /\ split = 3 /\ n_samples = 3 /\ Len(GradCalls) = 3

\* C3: in every gradient evaluation call (leading chunks, final chunk, the single
\* call of split = 1) the labels argument is the one resolved label repeated as
\* many times as the call's data argument has samples.
C3_LabelBroadcast ==
    \A k \in 1..Len(calls) :
        calls[k].with_labels =>
            /\ Len(labels) = 1
            /\ Len(calls[k].labels) = Len(calls[k].data)
            /\ \A m \in 1..Len(calls[k].labels) : calls[k].labels[m] = labels[1]

\* the final chunk of an uneven split got two samples and two labels, after a
\* leading chunk of one
C3_Witness ==
    /\ pc = "mean" /\ split = 2 /\ n_samples = 3
    /\ Len(GradCalls) = 2
    /\ Len(GradCalls[1].labels) = 1
    /\ Len(GradCalls[2].labels) = 2

\* C7 (as claimed): when n_samples < split the empty leading chunks are skipped:
\* no gradient evaluation call has a zero-sized batch, and the only gradient
\* evaluation call carries all N samples.
C7_EmptyChunksSkipped ==
    (n_samples >= 1 /\ n_samples < split) =>
        \A k \in 1..Len(calls) :
            calls[k].with_labels => Len(calls[k].data) = n_samples

\* C8 (as claimed): a call with split < 1 or n_samples < 1 ends in an error
\* before any gradient evaluation call and returns no map.
C8_ConfigurationRejected ==
    (pc # "idle" /\ (split < 1 \/ n_samples < 1)) =>
        /\ GradCalls = <<>>
        /\ returned = <<>>
        /\ pc # "done"

-----------------------------------------------------------------------------
(* The call as a whole *)

C5_LabelCalls ==
    (Phase(pc) >= 2 /\ err # "AssertionError") =>
        IF labels_arg # <<>>
        THEN /\ \A k \in 1..Len(calls) : IsGradientCall(calls[k])
             /\ labels = labels_arg
        ELSE /\ Len(calls) >= 1
             /\ IsTop1Call(calls[1])
             /\ calls[1].data = Unperturbed(data)
             /\ \A k \in 2..Len(calls) :
                  /\ IsGradientCall(calls[k])
                  /\ (~calls[1].raised =>
                        \A m \in 1..Len(calls[k].labels) :
                            calls[k].labels[m] = calls[1].preds[1])

\* C5, the order: a step stays in its phase, moves to the next one, or raises
C5_PhaseStep ==
    \/ pc' = "error"
    \/ pc' = "idle" /\ pc \in {"done", "error"}
    \/ Phase(pc') \in {Phase(pc), Phase(pc) + 1}

\* C5: interpret passes through LabelResolution, NoiseGeneration,
\* BatchedEvaluation and Aggregation in that order, and the label it resolved
\* first is the one every gradient evaluation call gets.
C5_LabelThenGradients == [](C5_LabelCalls) /\ [][C5_PhaseStep]_vars

\* a call without labels has returned after a prediction of class 1 and two
\* gradient evaluation calls
C5_Witness ==
    /\ pc = "done" /\ labels_arg = <<>>
    /\ Len(calls) = 3
    /\ calls[1].preds = <<1>>
    /\ labels = <<1>>

\* C6 (as claimed): a failed call returns no map and leaves no partial side
\* effect: nothing saved without its rendering, no visualisation shown by a call
\* that then fails.  Stated for the calls with n_samples >= 1 and split >= 1.
C6_NoPartialEffects ==
    (n_samples >= 1 /\ split >= 1) =>
        /\ (saved => vis_explanation # <<>>)
        /\ (pc = "error" => returned = <<>> /\ ~shown /\ ~saved)

\* C10 (as claimed): for n_samples >= 1 and split >= 1, a call that asks for
\* visualisation or a save path renders image 0 and uses save-path entry 0,
\* whatever n_samples and split are: the index it uses is 0.
C10_DisplayIndexZero ==
    (Phase(pc) >= 5 /\ n_samples >= 1 /\ split >= 1
       /\ (visual \/ save_path_arg # NoPath)) =>
        /\ err # "IndexError"
        /\ (save_path # <<>> => i = 0)
        /\ (vis_explanation # <<>> => vis_explanation[1].img.index = 0)

-----------------------------------------------------------------------------
(* The noise level, checked under SpecCalib *)

\* C9 (as claimed): the std the noise of channel c is drawn with is
\* noise_amount * (max - min) over the spatial positions of channel c.
C9_PerChannelStd ==
    \A k \in 1..Len(calls) :
        calls[k].with_labels =>
            \A m \in 1..Len(calls[k].data) : \A c \in Channels :
                calls[k].data[m].std[c] = noise_amount * ChannelRange(data[1], c)

\* C9 (amended): one std per input sample, used for every channel: it is
\* noise_amount times the largest difference between any two entries of the
\* sample, whatever their channels.
C9_PerSampleStd ==
    \A k \in 1..Len(calls) :
        calls[k].with_labels =>
            \A m \in 1..Len(calls[k].data) : \A c \in Channels :
                LET s == calls[k].data[m].std[c]
                    x == data[1]
                IN /\ \A c1 \in Channels, c2 \in Channels :
                        \A p1 \in Positions, p2 \in Positions :
                            noise_amount * (x[c1][p1] - x[c2][p2]) <= s
                   /\ \E c1 \in Channels, c2 \in Channels :
                        \E p1 \in Positions, p2 \in Positions :
                            noise_amount * (x[c1][p1] - x[c2][p2]) = s

\* noised copies of an image with a constant first channel and a varying second
\* one have been evaluated, drawn with a positive std in both channels
C9_Witness ==
    /\ GradCalls # <<>>
    /\ noise_amount = 1
    /\ ChannelRange(data[1], 1) = 0
    /\ ChannelRange(data[1], 2) > 0
    /\ Len(GradCalls[1].data) >= 1
    /\ GradCalls[1].data[1].std[1] > 0

====
